---- MODULE Spec2Model ----
(***************************************************************************)
(* Model of the salary management application src/iwp.py (class SalaryApp).*)
(*                                                                         *)
(* Python floats are modelled as exact rationals [n, d] in lowest terms;   *)
(* float('inf') is the pair n = 1, d = 0.  Text fields (tk.StringVar) are  *)
(* sequences of one-character strings, parsed and formatted digit by digit.*)
(***************************************************************************)
EXTENDS Integers, Sequences, FiniteSets, TLC

(***************************************************************************)
(* Bounds of the model.                                                    *)
(***************************************************************************)
MaxIncomeSteps == 16
MaxId == 2

(***************************************************************************)
(* Float arithmetic, as exact rationals.                                   *)
(***************************************************************************)
Abs(x) == IF x < 0 THEN -x ELSE x

RECURSIVE GCD(_, _)
GCD(a, b) == IF b = 0 THEN a ELSE GCD(b, a % b)

Norm(n, d) ==
    IF d = 0 THEN [n |-> 1, d |-> 0]
    ELSE LET g == GCD(Abs(n), d) IN [n |-> n \div g, d |-> d \div g]

R(k) == [n |-> k, d |-> 1]
Zero == R(0)
Inf == [n |-> 1, d |-> 0]
Pct(p) == Norm(p, 100)

\* Sums and products are reduced before they are multiplied out, so that
\* the intermediate values stay small.
RAdd(a, b) ==
    IF a.d = 0 \/ b.d = 0 THEN Inf
    ELSE LET g == GCD(a.d, b.d)
         IN Norm(a.n * (b.d \div g) + b.n * (a.d \div g), (a.d \div g) * b.d)
RSub(a, b) ==
    IF a.d = 0 THEN Inf
    ELSE LET g == GCD(a.d, b.d)
         IN Norm(a.n * (b.d \div g) - b.n * (a.d \div g), (a.d \div g) * b.d)
RMul(a, b) ==
    LET g1 == GCD(Abs(a.n), b.d)
        g2 == GCD(Abs(b.n), a.d)
    IN IF a.n = 0 \/ b.n = 0 THEN Zero
       ELSE Norm((a.n \div g1) * (b.n \div g2), (a.d \div g2) * (b.d \div g1))
RDiv(a, k) == LET g == GCD(Abs(a.n), k) IN Norm(a.n \div g, a.d * (k \div g))
RLe(a, b) ==
    IF a.d = 0 THEN b.d = 0
    ELSE IF b.d = 0 THEN TRUE
    ELSE LET g == GCD(a.d, b.d) IN a.n * (b.d \div g) <= b.n * (a.d \div g)
RLt(a, b) == ~RLe(b, a)

\* Python's max(a, b) and min(a, b): the first argument unless the second
\* is strictly greater (smaller).
PyMax(a, b) == IF RLt(a, b) THEN b ELSE a
PyMin(a, b) == IF RLt(b, a) THEN b ELSE a

(***************************************************************************)
(* Text of a tk.StringVar: a sequence of characters.                       *)
(***************************************************************************)
DigitChars == <<"0", "1", "2", "3", "4", "5", "6", "7", "8", "9">>
DigitSet == {DigitChars[i] : i \in 1..10}
DigitVal(c) == CHOOSE v \in 0..9 : DigitChars[v + 1] = c

RECURSIVE Pow10(_)
Pow10(k) == IF k = 0 THEN 1 ELSE 10 * Pow10(k - 1)

RECURSIVE NatOfDigits(_)
NatOfDigits(s) ==
    IF s = <<>> THEN 0
    ELSE NatOfDigits(SubSeq(s, 1, Len(s) - 1)) * 10 + DigitVal(s[Len(s)])

RECURSIVE DigitsOfNat(_)
DigitsOfNat(k) ==
    IF k < 10 THEN <<DigitChars[k + 1]>>
    ELSE Append(DigitsOfNat(k \div 10), DigitChars[(k % 10) + 1])

\* str.strip(): leading and trailing blanks removed.
RECURSIVE strip(_)
strip(s) ==
    IF s = <<>> THEN s
    ELSE IF Head(s) = " " THEN strip(Tail(s))
    ELSE IF s[Len(s)] = " " THEN strip(SubSeq(s, 1, Len(s) - 1))
    ELSE s

\* float(text) for decimal literals: blanks stripped, an optional sign,
\* digits with at most one decimal point and at least one digit.  Any
\* other text raises ValueError (ok = FALSE).
Dots(body) == {i \in 1..Len(body) : body[i] = "."}
DotAt(body) == IF Dots(body) = {} THEN Len(body) + 1 ELSE CHOOSE i \in Dots(body) : TRUE
WellFormed(body) ==
    /\ \A i \in 1..Len(body) : body[i] \in DigitSet \cup {"."}
    /\ Cardinality(Dots(body)) <= 1
    /\ Len(body) > Cardinality(Dots(body))
Magnitude(whole, frac) ==
    Norm(NatOfDigits(whole) * Pow10(Len(frac)) + NatOfDigits(frac), Pow10(Len(frac)))
FloatOfBody(body, negative) ==
    IF WellFormed(body)
    THEN [ok |-> TRUE,
          val |-> RMul(R(IF negative THEN -1 ELSE 1),
                       Magnitude(SubSeq(body, 1, DotAt(body) - 1),
                                 SubSeq(body, DotAt(body) + 1, Len(body))))]
    ELSE [ok |-> FALSE, val |-> Zero]
FloatOfStripped(t) ==
    IF t # <<>> /\ Head(t) \in {"-", "+"}
    THEN FloatOfBody(Tail(t), Head(t) = "-")
    ELSE FloatOfBody(t, FALSE)
float(text) == FloatOfStripped(strip(text))

\* to_float reading whatever digits the text holds instead of falling back
\* to 0.0
IsDigitChar(c) == c \in DigitSet
ToFloatDigitsOnly(text) == R(NatOfDigits(SelectSeq(text, IsDigitChar)))

\* The local helper to_float / to_float_val: 0.0 when float() raises.
to_float(text) == IF float(text).ok THEN float(text).val ELSE Zero

\* f"{x:.2f}": x rounded to the nearest hundredth (ties to even), two
\* decimals always shown.
Format2f(x) ==
    LET c == RMul(R(Abs(x.n)), Norm(100, x.d))
        q == c.n \div c.d
        r == c.n % c.d
        h == IF 2 * r > c.d \/ (2 * r = c.d /\ q % 2 = 1) THEN q + 1 ELSE q
        cents == h % 100
        sign == IF x.n < 0 THEN <<"-">> ELSE <<>>
    IN sign \o DigitsOfNat(h \div 100) \o <<".">>
            \o <<DigitChars[(cents \div 10) + 1], DigitChars[(cents % 10) + 1]>>

\* Text of a whole amount, as a user types it.
Txt(k) == IF k < 0 THEN <<"-">> \o DigitsOfNat(-k) ELSE DigitsOfNat(k)

(***************************************************************************)
(* Tax slabs and limits set by SalaryApp.__init__.                         *)
(***************************************************************************)
NewRegimeSlabs ==
    << <<R(300000), Pct(0)>>, <<R(600000), Pct(5)>>, <<R(900000), Pct(10)>>,
       <<R(1200000), Pct(15)>>, <<R(1500000), Pct(20)>>, <<Inf, Pct(30)>> >>
OldRegimeSlabs ==
    << <<R(250000), Pct(0)>>, <<R(500000), Pct(5)>>, <<R(1000000), Pct(20)>>,
       <<Inf, Pct(30)>> >>
OldRebateLimit == R(500000)
NewRebateLimit == R(700000)
CessRate == Pct(4)

(***************************************************************************)
(* SalaryApp._compute_tax_from_slabs                                       *)
(***************************************************************************)
\* line 518, without the min against the income still to be taxed
SlabAmountNoRemaining(upper, lower, remaining) == PyMax(Zero, RSub(upper, lower))

\* line 518, with the slab's width taken from 0 instead of from lower
SlabAmountNoLower(upper, lower, remaining) == PyMax(Zero, PyMin(upper, remaining))

slab_amount(upper, lower, remaining) == PyMax(Zero, PyMin(RSub(upper, lower), remaining))

\* line 522 with "=" for "+="
AddTaxOverwrite(tax, amount, rate) == RMul(amount, rate)

add_tax(tax, amount, rate) == RAdd(tax, RMul(amount, rate))

\* The for loop over slabs[i..]; early says whether line 525-526 (break once
\* remaining <= 0) is taken.
RECURSIVE SlabLoop(_, _, _, _, _, _)
SlabLoop(slabs, i, tax, lower, remaining, early) ==
    IF i > Len(slabs) THEN tax
    ELSE LET upper == slabs[i][1]
             rate == slabs[i][2]
             amount == slab_amount(upper, lower, remaining)
         IN IF RLe(amount, Zero)
            THEN SlabLoop(slabs, i + 1, tax, upper, remaining, early)
            ELSE LET tax2 == add_tax(tax, amount, rate)
                     remaining2 == RSub(remaining, amount)
                 IN IF early /\ RLe(remaining2, Zero)
                    THEN tax2
                    ELSE SlabLoop(slabs, i + 1, tax2, upper, remaining2, early)

compute_tax_from_slabs(taxable_income, slabs) ==
    SlabLoop(slabs, 1, Zero, Zero, taxable_income, TRUE)

(***************************************************************************)
(* State of the application.                                               *)
(***************************************************************************)
VARIABLES
    employees,          \* self.employees: id -> [name, gross_salary]
    data_file,          \* the rows of employees.csv
    tree,               \* the id column of the Treeview rows, top to bottom
    selection,          \* self.tree.selection(): <<>> or <<id>>
    form,               \* the tk.StringVar of every input widget
    NEW_REGIME_SLABS, OLD_REGIME_SLABS, OLD_REBATE_LIMIT, NEW_REBATE_LIMIT, CESS_RATE,
    window,             \* which window holds the grab: "main", "result", "payslip"
    result,             \* the breakdown of the last Calculate Tax on the inputs as
                        \* they stand (NoResult once an input has changed)
    payslip,            \* the figures of the open payslip window
    call,               \* a direct call of _compute_tax_from_slabs and its return
    retired             \* history: the ids of the employees deleted so far, kept
                        \* only under SpecIds (the program holds no such record)

config == <<NEW_REGIME_SLABS, OLD_REGIME_SLABS, OLD_REBATE_LIMIT, NEW_REBATE_LIMIT, CESS_RATE>>
registry == <<employees, data_file, tree>>
vars == <<employees, data_file, tree, selection, form, NEW_REGIME_SLABS, OLD_REGIME_SLABS,
          OLD_REBATE_LIMIT, NEW_REBATE_LIMIT, CESS_RATE, window, result, payslip, call,
          retired>>

NoResult == [shown |-> FALSE]
NoPayslip == [shown |-> FALSE]
NoCall == [st |-> "none", a |-> Zero, b |-> Zero, slabs |-> <<>>, ta |-> Zero, tb |-> Zero]

Asha == <<"A", "s", "h", "a">>

\* The widgets' initial values (_create_input_widgets), also what
\* _clear_form sets.
DefaultForm ==
    [name_var |-> <<>>, basic_var |-> Txt(0), hra_var |-> Txt(0),
     other_allow_var |-> Txt(0), other_income_var |-> Txt(0), sec80c_var |-> Txt(0),
     sec80d_var |-> Txt(0), std_ded_var |-> Txt(50000), regime_var |-> "new"]

\* _load_employees: the dictionary read from the rows of the file (a later
\* row with the same id replaces an earlier one).  csv writes a float by
\* repr and float() reads it back to the same float.
RECURSIVE load_employees(_)
load_employees(rows) ==
    IF rows = <<>> THEN <<>>
    ELSE LET last == rows[Len(rows)]
             before == load_employees(SubSeq(rows, 1, Len(rows) - 1))
         IN [id \in DOMAIN before \cup {last.id} |->
                IF id = last.id THEN [name |-> last.name, gross_salary |-> last.gross_salary]
                ELSE before[id]]

\* sorted(self.employees.keys())
RECURSIVE SortedIds(_)
SortedIds(ids) ==
    IF ids = {} THEN <<>>
    ELSE LET m == CHOOSE x \in ids : \A y \in ids : x <= y
         IN <<m>> \o SortedIds(ids \ {m})

\* _save_employees: one row per entry of the dictionary.
save_employees(emps) ==
    LET ids == SortedIds(DOMAIN emps)
    IN [i \in 1..Len(ids) |->
           [id |-> ids[i], name |-> emps[ids[i]].name, gross_salary |-> emps[ids[i]].gross_salary]]

\* The files the application may find at start: none, or one saved record.
DataFiles == {<<>>, <<[id |-> 1, name |-> Asha, gross_salary |-> R(100000)]>>}

InitApp ==
    /\ data_file \in DataFiles
    /\ employees = load_employees(data_file)
    /\ tree = SortedIds(DOMAIN employees)
    /\ selection = <<>>
    /\ NEW_REGIME_SLABS = NewRegimeSlabs
    /\ OLD_REGIME_SLABS = OldRegimeSlabs
    /\ OLD_REBATE_LIMIT = OldRebateLimit
    /\ NEW_REBATE_LIMIT = NewRebateLimit
    /\ CESS_RATE = CessRate
    /\ window = "main"
    /\ result = NoResult
    /\ payslip = NoPayslip
    /\ retired = {}

(***************************************************************************)
(* SalaryApp._calculate_tax: the figures it computes from the form.        *)
(***************************************************************************)
\* line 557 without the floor at 0
TaxableIncomeNoFloor(gross_total_income, total_deductions) ==
    RSub(gross_total_income, total_deductions)

taxable_income_of(gross_total_income, total_deductions) ==
    PyMax(Zero, RSub(gross_total_income, total_deductions))

\* line 572 with "<" for "<="
RebateBelowLimitOnly(taxable_income, rebate_limit, tax_before_cess) ==
    IF RLt(taxable_income, rebate_limit) THEN Zero ELSE tax_before_cess

\* lines 571-574: the rebate u/s 87A
after_rebate(taxable_income, rebate_limit, tax_before_cess) ==
    IF RLe(taxable_income, rebate_limit) THEN Zero ELSE tax_before_cess

\* line 577 without the cess
TotalTaxNoCess(tax_before_cess, cess) == tax_before_cess

total_tax_of(tax_before_cess, cess) == RAdd(tax_before_cess, cess)

\* lines 576-580 and the rows of the result window
Breakdown4(gross_salary, other_income, gross_total_income, total_deductions, taxable_income, tax_before_cess, cess, total_tax) ==
    [shown |-> TRUE,
     gross_salary |-> gross_salary,
     other_income |-> other_income,
     gross_total_income |-> gross_total_income,
     total_deductions |-> total_deductions,
     taxable_income |-> taxable_income,
     tax_before_cess |-> tax_before_cess,
     cess |-> cess,
     total_tax |-> total_tax,
     monthly_tds |-> RDiv(total_tax, 12)]

Breakdown3(gross_salary, other_income, gross_total_income, total_deductions, taxable_income, tax_before_cess, cess) ==
    Breakdown4(gross_salary, other_income, gross_total_income, total_deductions,
               taxable_income, tax_before_cess, cess, total_tax_of(tax_before_cess, cess))

\* lines 568-576
Breakdown2(gross_salary, other_income, gross_total_income, total_deductions, taxable_income, tax_before_cess, cess_rate) ==
    Breakdown3(gross_salary, other_income, gross_total_income, total_deductions,
               taxable_income, tax_before_cess, RMul(tax_before_cess, cess_rate))

Breakdown1(gross_salary, other_income, gross_total_income, total_deductions, taxable_income, slabs, rebate_limit, cess_rate) ==
    Breakdown2(gross_salary, other_income, gross_total_income, total_deductions,
               taxable_income,
               after_rebate(taxable_income, rebate_limit,
                            compute_tax_from_slabs(taxable_income, slabs)),
               cess_rate)

\* lines 549-557
Breakdown0(gross_salary, other_income, total_deductions, slabs, rebate_limit, cess_rate) ==
    Breakdown1(gross_salary, other_income, RAdd(gross_salary, other_income), total_deductions,
               taxable_income_of(RAdd(gross_salary, other_income), total_deductions),
               slabs, rebate_limit, cess_rate)

\* lines 539-548: basic_annual + hra_annual + other_allow_annual
gross_salary_of(f) ==
    RAdd(RAdd(RMul(to_float(f.basic_var), R(12)), RMul(to_float(f.hra_var), R(12))),
         RMul(to_float(f.other_allow_var), R(12)))

\* lines 552-556
total_deductions_of(f) ==
    RAdd(RAdd(to_float(f.std_ded_var), to_float(f.sec80c_var)), to_float(f.sec80d_var))

calculate_tax(f, new_slabs, old_slabs, old_limit, new_limit, cess_rate) ==
    Breakdown0(gross_salary_of(f), to_float(f.other_income_var), total_deductions_of(f),
               IF f.regime_var = "new" THEN new_slabs ELSE old_slabs,
               IF f.regime_var = "new" THEN new_limit ELSE old_limit,
               cess_rate)

(***************************************************************************)
(* The handlers of the main window.  A handler that shows a message box    *)
(* and returns leaves the state as it was.                                 *)
(***************************************************************************)
TextFields == {"name_var", "basic_var", "hra_var", "other_allow_var", "other_income_var",
               "sec80c_var", "sec80d_var", "std_ded_var"}

\* What the user types into each entry.  The texts typed for HRA and other
\* allowances are ones float() rejects or reads as 0, which keeps the set of
\* salaries that Add and Update can store finite.
TypedTexts ==
    [name_var |-> {<<>>, Asha},
     basic_var |-> {Txt(0), Txt(100000)},
     hra_var |-> {Txt(0), <<"a", "b", "c">>},
     other_allow_var |-> {Txt(0), <<>>},
     other_income_var |-> {Txt(0), Txt(750001)},
     sec80c_var |-> {Txt(0), Txt(150000)},
     sec80d_var |-> {Txt(0), Txt(-1000)},
     std_ded_var |-> {Txt(50000), <<" ", "0">>}]

Type(fld, text) ==
    /\ window = "main"
    /\ form[fld] # text
    /\ form' = [form EXCEPT ![fld] = text]
    /\ result' = NoResult
    /\ UNCHANGED <<registry, selection, config, window, payslip, call>>

ChooseRegime(regime) ==
    /\ window = "main"
    /\ form.regime_var # regime
    /\ form' = [form EXCEPT !.regime_var = regime]
    /\ result' = NoResult
    /\ UNCHANGED <<registry, selection, config, window, payslip, call>>

\* _on_item_select without the reset of the other-income field
OnItemSelectKeepsOtherIncome(emps, emp_id, f) ==
    IF emp_id \in DOMAIN emps
    THEN [name_var |-> emps[emp_id].name,
          basic_var |-> Format2f(RDiv(emps[emp_id].gross_salary, 12)),
          hra_var |-> Txt(0), other_allow_var |-> Txt(0),
          other_income_var |-> f.other_income_var,
          sec80c_var |-> Txt(0), sec80d_var |-> Txt(0), std_ded_var |-> Txt(50000),
          regime_var |-> "new"]
    ELSE f

\* _on_item_select, lines 310-327: the form after the row of emp_id is selected
on_item_select(emps, emp_id, f) ==
    IF emp_id \in DOMAIN emps
    THEN [name_var |-> emps[emp_id].name,
          basic_var |-> Format2f(RDiv(emps[emp_id].gross_salary, 12)),
          hra_var |-> Txt(0), other_allow_var |-> Txt(0), other_income_var |-> Txt(0),
          sec80c_var |-> Txt(0), sec80d_var |-> Txt(0), std_ded_var |-> Txt(50000),
          regime_var |-> "new"]
    ELSE f

\* A click on a row of the tree: the row becomes the selection and
\* <<TreeviewSelect>> runs _on_item_select.
SelectItem(i) ==
    /\ window = "main"
    /\ selection # <<tree[i]>>
    /\ selection' = <<tree[i]>>
    /\ form' = on_item_select(employees, tree[i], form)
    /\ result' = NoResult
    /\ UNCHANGED <<registry, config, window, payslip, call>>

ClearForm ==
    /\ window = "main"
    /\ form' = DefaultForm
    /\ selection' = <<>>
    /\ result' = NoResult
    /\ UNCHANGED <<registry, config, window, payslip, call>>

\* _get_next_id
get_next_id(emps) ==
    IF DOMAIN emps = {} THEN 1
    ELSE (CHOOSE m \in DOMAIN emps : \A k \in DOMAIN emps : k <= m) + 1

\* lines 373 and 416: no salary component is positive
NoComponent(f) ==
    /\ RLe(to_float(f.basic_var), Zero)
    /\ RLe(to_float(f.hra_var), Zero)
    /\ RLe(to_float(f.other_allow_var), Zero)

\* lines 382 and 420
gross_annual(f) ==
    RMul(RAdd(RAdd(to_float(f.basic_var), to_float(f.hra_var)), to_float(f.other_allow_var)),
         R(12))

\* self.employees[emp_id] = {...}; _save_employees; _populate_treeview; _clear_form
Store(emps) ==
    /\ employees' = emps
    /\ data_file' = save_employees(emps)
    /\ tree' = SortedIds(DOMAIN emps)
    /\ form' = DefaultForm
    /\ selection' = <<>>
    /\ result' = NoResult

\* Ids grow without limit in the code; the model stops adding at MaxId.
AddEmployee ==
    /\ window = "main"
    /\ get_next_id(employees) <= MaxId
    /\ IF strip(form.name_var) = <<>> \/ NoComponent(form)
       THEN UNCHANGED <<registry, selection, form, result>>
       ELSE LET emp_id == get_next_id(employees)
                rec == [name |-> strip(form.name_var), gross_salary |-> gross_annual(form)]
            IN Store([id \in DOMAIN employees \cup {emp_id} |->
                         IF id = emp_id THEN rec ELSE employees[id]])
    /\ UNCHANGED <<config, window, payslip, call>>

UpdateEmployee ==
    /\ window = "main"
    /\ IF selection = <<>> \/ strip(form.name_var) = <<>> \/ NoComponent(form)
       THEN UNCHANGED <<registry, selection, form, result>>
       ELSE Store([employees EXCEPT ![selection[1]] =
                      [name |-> strip(form.name_var), gross_salary |-> gross_annual(form)]])
    /\ UNCHANGED <<config, window, payslip, call>>

\* confirmed: the answer to askyesno
DeleteEmployee(confirmed) ==
    /\ window = "main"
    /\ IF selection = <<>> \/ ~confirmed
       THEN UNCHANGED <<registry, selection, form, result>>
       ELSE Store([id \in DOMAIN employees \ {selection[1]} |-> employees[id]])
    /\ UNCHANGED <<config, window, payslip, call>>

\* The module's TAX_RATE, NATIONAL_INSURANCE_RATE and PENSION_RATE.
TaxRate == Pct(20)
NationalInsuranceRate == Pct(12)
PensionRate == Pct(5)

GeneratePayslip ==
    /\ window = "main"
    /\ selection # <<>>
    /\ LET gross_salary == employees[selection[1]].gross_salary
           tax == RMul(gross_salary, TaxRate)
           ni == RMul(gross_salary, NationalInsuranceRate)
           pension == RMul(gross_salary, PensionRate)
           total_deductions == RAdd(RAdd(tax, ni), pension)
       IN payslip' = [shown |-> TRUE, emp_id |-> selection[1], gross_salary |-> gross_salary,
                      tax |-> tax, ni |-> ni, pension |-> pension,
                      total_deductions |-> total_deductions,
                      net_salary |-> RSub(gross_salary, total_deductions)]
    /\ window' = "payslip"
    /\ UNCHANGED <<registry, selection, form, config, result, call>>

\* Calculate Tax with the form cleared afterwards, as Add and Update do
CalculateTaxThenClear ==
    /\ window = "main"
    /\ result' = calculate_tax(form, NEW_REGIME_SLABS, OLD_REGIME_SLABS, OLD_REBATE_LIMIT,
                               NEW_REBATE_LIMIT, CESS_RATE)
    /\ window' = "result"
    /\ form' = DefaultForm
    /\ UNCHANGED <<registry, selection, config, payslip, call>>

\* _calculate_tax: the breakdown is shown in a window that holds the grab
CalculateTax ==
    /\ window = "main"
    /\ result' = calculate_tax(form, NEW_REGIME_SLABS, OLD_REGIME_SLABS, OLD_REBATE_LIMIT,
                               NEW_REBATE_LIMIT, CESS_RATE)
    /\ window' = "result"
    /\ UNCHANGED <<registry, selection, form, config, payslip, call>>

\* The Close button of the result window, or the payslip window closed.
CloseWindow ==
    /\ window # "main"
    /\ window' = "main"
    /\ payslip' = NoPayslip
    /\ UNCHANGED <<registry, selection, form, config, result, call>>

Init == InitApp /\ form = DefaultForm /\ call = NoCall

Next ==
    \/ \E fld \in TextFields : \E text \in TypedTexts[fld] :
          Type(fld, text) /\ UNCHANGED retired
    \/ \E regime \in {"new", "old"} : ChooseRegime(regime) /\ UNCHANGED retired
    \/ \E i \in 1..Len(tree) : SelectItem(i) /\ UNCHANGED retired
    \/ ClearForm /\ UNCHANGED retired
    \/ AddEmployee /\ UNCHANGED retired
    \/ UpdateEmployee /\ UNCHANGED retired
    \/ \E confirmed \in BOOLEAN : DeleteEmployee(confirmed) /\ UNCHANGED retired
    \/ GeneratePayslip /\ UNCHANGED retired
    \/ CalculateTax /\ UNCHANGED retired
    \/ CloseWindow /\ UNCHANGED retired

Spec == Init /\ [][Next]_vars

(***************************************************************************)
(* SpecIds: sequences of Add Employee and Delete Selected, with the typing *)
(* and row selection they need, and a record of the ids deleted so far.    *)
(***************************************************************************)
\* del self.employees[emp_id] (line 439): the ids that leave the dictionary
Retire == retired' = retired \cup (DOMAIN employees \ DOMAIN employees')

NextIds ==
    \/ \E fld \in {"name_var", "basic_var"} : \E text \in TypedTexts[fld] :
          Type(fld, text) /\ Retire
    \/ \E i \in 1..Len(tree) : SelectItem(i) /\ Retire
    \/ AddEmployee /\ Retire
    \/ \E confirmed \in BOOLEAN : DeleteEmployee(confirmed) /\ Retire

SpecIds == Init /\ [][NextIds]_vars

(***************************************************************************)
(* Calculate Tax on bounded form contents: every combination of the texts  *)
(* below, typed into the form before the button is pressed.                *)
(***************************************************************************)
NotANumber == <<"a", "b", "c">>
CalcTexts ==
    [basic_var |-> {Txt(0), Txt(50000), Txt(100000), Txt(-1000), NotANumber},
     hra_var |-> {Txt(0), Txt(5000), Txt(-500)},
     other_allow_var |-> {Txt(0), <<>>, Txt(-500)},
     other_income_var |-> {Txt(0), Txt(550000), Txt(550001), Txt(750000), Txt(750001),
                           Txt(1000000), Txt(-1)},
     sec80c_var |-> {Txt(0), Txt(150000), Txt(-1000)},
     sec80d_var |-> {Txt(0), Txt(2000000), Txt(-1000)},
     std_ded_var |-> {Txt(50000), <<" ", "0">>, Txt(-50000)}]

InitCalc ==
    /\ InitApp
    /\ data_file = <<>>
    /\ call = NoCall
    /\ \E b \in CalcTexts.basic_var, h \in CalcTexts.hra_var, o \in CalcTexts.other_allow_var,
          oi \in CalcTexts.other_income_var, c \in CalcTexts.sec80c_var,
          d \in CalcTexts.sec80d_var, sd \in CalcTexts.std_ded_var, regime \in {"new", "old"} :
          form = [name_var |-> <<>>, basic_var |-> b, hra_var |-> h, other_allow_var |-> o,
                  other_income_var |-> oi, sec80c_var |-> c, sec80d_var |-> d,
                  std_ded_var |-> sd, regime_var |-> regime]

NextCalc ==
    \/ CalculateTax /\ UNCHANGED retired
    \/ CloseWindow /\ UNCHANGED retired

SpecCalc == InitCalc /\ [][NextCalc]_vars

(***************************************************************************)
(* Calculate Tax on forms whose fields each hold a number, nothing, or a   *)
(* text float() rejects.                                                   *)
(***************************************************************************)
ParseTexts ==
    [basic_var |-> {Txt(100000), <<>>, NotANumber},
     hra_var |-> {Txt(5000), <<" ">>, <<"-">>},
     other_allow_var |-> {Txt(1000), <<>>, <<".">>},
     other_income_var |-> {Txt(750001), <<>>, <<"1", ",", "0", "0", "0">>},
     sec80c_var |-> {Txt(150000), <<>>, <<"1", ".", "2", ".", "3">>},
     sec80d_var |-> {Txt(25000), <<>>, <<"5", " ", "0">>},
     std_ded_var |-> {Txt(50000), <<>>, <<"+">>}]

InitParse ==
    /\ InitApp
    /\ data_file = <<>>
    /\ call = NoCall
    /\ \E b \in ParseTexts.basic_var, h \in ParseTexts.hra_var, o \in ParseTexts.other_allow_var,
          oi \in ParseTexts.other_income_var, c \in ParseTexts.sec80c_var,
          d \in ParseTexts.sec80d_var, sd \in ParseTexts.std_ded_var, regime \in {"new", "old"} :
          form = [name_var |-> <<>>, basic_var |-> b, hra_var |-> h, other_allow_var |-> o,
                  other_income_var |-> oi, sec80c_var |-> c, sec80d_var |-> d,
                  std_ded_var |-> sd, regime_var |-> regime]

SpecParse == InitParse /\ [][NextCalc]_vars

(***************************************************************************)
(* Direct calls of _compute_tax_from_slabs on bounded inputs.              *)
(***************************************************************************)
Boundaries == {250000, 300000, 500000, 600000, 700000, 900000, 1000000, 1200000, 1500000}
Incomes ==
    {R(k * 100000) : k \in 0..MaxIncomeSteps}
        \cup {R(u + o) : u \in Boundaries, o \in {-1, 0, 1}}
        \cup {R(950000), R(1150000), Norm(1, 2), Norm(1400001, 2)}

\* Schedules with one finite bound besides the two of the application.
SmallSchedules ==
    {<< <<R(u), Pct(r1)>>, <<Inf, Pct(r2)>> >> : u \in {250000, 600000}, r1 \in {0, 10}, r2 \in {5, 30}}
Schedules == {NewRegimeSlabs, OldRegimeSlabs} \cup SmallSchedules

InitSlabs ==
    /\ InitApp
    /\ data_file = <<>>
    /\ form = DefaultForm
    /\ call \in {c \in [st : {"args"}, a : Incomes, b : Incomes, slabs : Schedules,
                       ta : {Zero}, tb : {Zero}] : RLe(c.a, c.b)}

ComputeTaxFromSlabs ==
    /\ call.st = "args"
    /\ call' = [call EXCEPT !.st = "ret",
                            !.ta = compute_tax_from_slabs(call.a, call.slabs),
                            !.tb = compute_tax_from_slabs(call.b, call.slabs)]
    /\ UNCHANGED <<registry, selection, form, config, window, result, payslip>>

NextSlabs == ComputeTaxFromSlabs /\ UNCHANGED retired
SpecSlabs == InitSlabs /\ [][NextSlabs]_vars

(***************************************************************************)
(* Properties of _compute_tax_from_slabs, under SpecSlabs.                 *)
(***************************************************************************)
FixedSchedules == {NewRegimeSlabs, OldRegimeSlabs}
LowerOf(S, i) == IF i = 1 THEN Zero ELSE S[i - 1][1]
Returned == call.st = "ret"

\* rate_i * max(0, min(ti, upper_i) - lower_i), summed over brackets i..Len(S)
RECURSIVE BracketSum(_, _, _)
BracketSum(ti, S, i) ==
    IF i > Len(S) THEN Zero
    ELSE LET part == RSub(IF RLe(ti, S[i][1]) THEN ti ELSE S[i][1], LowerOf(S, i))
         IN RAdd(RMul(S[i][2], IF RLe(part, Zero) THEN Zero ELSE part),
                 BracketSum(ti, S, i + 1))

\* (upper_j - lower_j) * rate_j, summed over the brackets 1..i
RECURSIVE FilledSum(_, _)
FilledSum(S, i) ==
    IF i = 0 THEN Zero
    ELSE RAdd(FilledSum(S, i - 1), RMul(RSub(S[i][1], LowerOf(S, i)), S[i][2]))

\* C2: under each of the two fixed schedules the tax returned for an income
\* >= 0 is the sum over the brackets of rate_i * max(0, min(income, upper_i)
\* - lower_i); an income of 950000 under the old regime gives 102500.
C2_SumOfBracketContributions ==
    (Returned /\ call.slabs \in FixedSchedules) =>
        /\ call.ta = BracketSum(call.a, call.slabs, 1)
        /\ call.tb = BracketSum(call.b, call.slabs, 1)
        /\ (call.a = R(950000) /\ call.slabs = OldRegimeSlabs) => call.ta = R(102500)

C2_Witness ==
    Returned /\ call.slabs = OldRegimeSlabs /\ call.a = R(950000) /\ call.ta = R(102500)

\* C3: for incomes 0 <= a <= b and any valid schedule the tax on a is at
\* most the tax on b.
C3_Monotonic == Returned => (RLe(call.a, call.b) /\ RLe(call.ta, call.tb))

C3_Witness ==
    Returned /\ call.slabs = NewRegimeSlabs /\ call.a = R(600000) /\ call.b = R(600001)
        /\ RLt(call.ta, call.tb)

\* C6: at every finite bracket boundary upper_i of the two fixed schedules
\* the walk returns the sum of the filled brackets 1..i, and one currency
\* unit above the boundary adds exactly the next bracket's rate.
C6_ContinuousAtBoundaries ==
    (Returned /\ call.slabs \in FixedSchedules) =>
        \A i \in 1..(Len(call.slabs) - 1) :
            call.a = call.slabs[i][1] =>
                /\ call.ta = FilledSum(call.slabs, i)
                /\ call.b = RAdd(call.a, R(1)) =>
                       call.tb = RAdd(call.ta, call.slabs[i + 1][2])

C6_Witness ==
    Returned /\ call.slabs = NewRegimeSlabs /\ call.a = R(900000) /\ call.b = R(900001)
        /\ call.ta = R(45000) /\ call.tb = RAdd(R(45000), Pct(15))

\* C8: for any valid schedule and any income >= 0 the walk returns a tax
\* >= 0, and the tax on an income of 0 is 0.
C8_NonNegativeZeroAtZero ==
    Returned =>
        /\ RLe(Zero, call.ta)
        /\ RLe(Zero, call.tb)
        /\ call.a = Zero => call.ta = Zero

C8_Witness ==
    Returned /\ call.a = Zero /\ call.ta = Zero /\ call.slabs[1][2] # Zero
        /\ RLt(Zero, call.tb)

\* The walk that never takes the break of lines 525-526.
WalkWithoutBreak(taxable_income, slabs) ==
    SlabLoop(slabs, 1, Zero, Zero, taxable_income, FALSE)

\* C12: for every income >= 0 and every schedule, the walk that breaks once
\* remaining reaches 0 returns the same tax as the walk that goes on through
\* the remaining brackets.
C12_EarlyStopIsOptimization ==
    Returned =>
        /\ call.ta = WalkWithoutBreak(call.a, call.slabs)
        /\ call.tb = WalkWithoutBreak(call.b, call.slabs)

\* The break is taken after the second of six brackets.
C12_Witness ==
    /\ Returned
    /\ call.slabs = NewRegimeSlabs
    /\ call.a = R(600000)
    /\ call.ta = R(15000)
    /\ WalkWithoutBreak(call.a, call.slabs) = R(15000)
    /\ call.b = R(1600000)

(***************************************************************************)
(* Properties of _calculate_tax, under SpecCalc.  result holds the         *)
(* breakdown computed from the form as it stands.                          *)
(***************************************************************************)
RebateLimitOf(regime) == IF regime = "new" THEN R(700000) ELSE R(500000)

\* C1: whenever the taxable income is at most the rebate limit of the chosen
\* regime (700000 new, 500000 old), tax before cess, cess and total tax are
\* all 0; under the new regime a taxable income of 700000 gives tax 0 and
\* 700001 gives the full bracket tax 25000.10.
C1_RebateCliff ==
    result.shown =>
        /\ RLe(result.taxable_income, RebateLimitOf(form.regime_var)) =>
               (result.tax_before_cess = Zero /\ result.cess = Zero /\ result.total_tax = Zero)
        /\ (form.regime_var = "new" /\ result.taxable_income = R(700000)) =>
               result.tax_before_cess = Zero
        /\ (form.regime_var = "new" /\ result.taxable_income = R(700001)) =>
               result.tax_before_cess = Norm(250001, 10)

C1_Witness ==
    /\ result.shown
    /\ form.regime_var = "new"
    /\ result.taxable_income = R(700000)
    /\ result.tax_before_cess = Zero
    /\ result.total_tax = Zero

\* The other side of the cliff is reached too.
C1_AboveCliffReached ==
    /\ result.shown
    /\ form.regime_var = "new"
    /\ result.taxable_income = R(700001)
    /\ RLt(Zero, result.tax_before_cess)

\* C4: gross salary is (basic + hra + other allowances) * 12, gross total
\* income adds the other annual income, total deductions are standard + 80C
\* + 80D, and taxable income is max(0, gross total income - total
\* deductions), so it is never negative.
C4_TaxableIncomeFloored ==
    result.shown =>
        LET monthly == RAdd(RAdd(to_float(form.basic_var), to_float(form.hra_var)),
                            to_float(form.other_allow_var))
            gross == RMul(monthly, R(12))
            total == RAdd(gross, to_float(form.other_income_var))
            deductions == RAdd(RAdd(to_float(form.std_ded_var), to_float(form.sec80c_var)),
                               to_float(form.sec80d_var))
        IN /\ result.gross_salary = gross
           /\ result.gross_total_income = total
           /\ result.total_deductions = deductions
           /\ result.taxable_income =
                  (IF RLe(deductions, total) THEN RSub(total, deductions) ELSE Zero)
           /\ RLe(Zero, result.taxable_income)

C4_Witness ==
    /\ result.shown
    /\ RLt(Zero, result.gross_total_income)
    /\ RLt(result.gross_total_income, result.total_deductions)
    /\ result.taxable_income = Zero

\* C5: new regime, basic 100000 a month, no other pay or income, standard
\* deduction 50000 and no other deduction give gross salary 1200000, taxable
\* income 1150000, tax before cess 82500, cess 3300, total tax 85800 and
\* monthly withholding 7150.
Scenario1 ==
    /\ form.regime_var = "new"
    /\ to_float(form.basic_var) = R(100000)
    /\ to_float(form.hra_var) = Zero
    /\ to_float(form.other_allow_var) = Zero
    /\ to_float(form.other_income_var) = Zero
    /\ to_float(form.std_ded_var) = R(50000)
    /\ to_float(form.sec80c_var) = Zero
    /\ to_float(form.sec80d_var) = Zero

Scenario1Figures ==
    /\ result.gross_salary = R(1200000)
    /\ result.taxable_income = R(1150000)
    /\ result.tax_before_cess = R(82500)
    /\ result.cess = R(3300)
    /\ result.total_tax = R(85800)
    /\ result.monthly_tds = R(7150)

C5_Scenario1 == (result.shown /\ Scenario1) => Scenario1Figures

C5_Witness == result.shown /\ Scenario1 /\ Scenario1Figures /\ window = "result"

\* C7: in every breakdown cess is 4% of tax before cess, total tax is tax
\* before cess plus cess, and the monthly withholding is total tax / 12.
C7_CessProportional ==
    result.shown =>
        /\ result.cess = RMul(result.tax_before_cess, Norm(4, 100))
        /\ result.total_tax = RAdd(result.tax_before_cess, result.cess)
        /\ RMul(result.monthly_tds, R(12)) = result.total_tax

C7_Witness ==
    /\ result.shown
    /\ form.regime_var = "old"
    /\ RLt(Zero, result.tax_before_cess)
    /\ RLt(Zero, result.cess)
    /\ RLt(result.tax_before_cess, result.total_tax)

\* C9: a negative value in an input field is clamped to 0 (the model has no
\* error signal: Calculate Tax always shows a breakdown), so the breakdown is
\* the one of the form with every negative field set to 0 and none of its
\* figures is negative.
ClampedText(text) == IF RLt(to_float(text), Zero) THEN Txt(0) ELSE text
ClampedForm ==
    [fld \in DOMAIN form |->
        IF fld \in {"name_var", "regime_var"} THEN form[fld] ELSE ClampedText(form[fld])]

C9_NegativeInputsClamped ==
    result.shown =>
        /\ result = calculate_tax(ClampedForm, NEW_REGIME_SLABS, OLD_REGIME_SLABS,
                                  OLD_REBATE_LIMIT, NEW_REBATE_LIMIT, CESS_RATE)
        /\ RLe(Zero, result.gross_salary)
        /\ RLe(Zero, result.other_income)
        /\ RLe(Zero, result.gross_total_income)
        /\ RLe(Zero, result.total_deductions)

\* C11: under SpecParse, every field whose text float() rejects (empty or
\* not a number) counts as 0 in the breakdown, and Calculate Tax always ends
\* with a breakdown shown.
Rejected(text) == ~float(text).ok
ZeroIfRejected(text) == IF Rejected(text) THEN Zero ELSE float(text).val

C11_RejectedTextsCountAsZero ==
    /\ window = "result" => result.shown
    /\ result.shown =>
        /\ result.gross_salary =
               RMul(RAdd(RAdd(ZeroIfRejected(form.basic_var), ZeroIfRejected(form.hra_var)),
                         ZeroIfRejected(form.other_allow_var)), R(12))
        /\ result.other_income = ZeroIfRejected(form.other_income_var)
        /\ result.total_deductions =
               RAdd(RAdd(ZeroIfRejected(form.std_ded_var), ZeroIfRejected(form.sec80c_var)),
                    ZeroIfRejected(form.sec80d_var))

C11_Witness ==
    /\ window = "result"
    /\ result.shown
    /\ \A fld \in TextFields \ {"name_var", "basic_var"} : Rejected(form[fld])
    /\ form.other_income_var # <<>>
    /\ form.sec80d_var # <<>>
    /\ result.gross_salary = R(1200000)
    /\ result.total_deductions = Zero
    /\ result.taxable_income = R(1200000)

(***************************************************************************)
(* Properties of the handlers, under Spec.                                 *)
(***************************************************************************)
\* C10: a Calculate Tax step leaves the registry, the file, the tree, the
\* selection, every form field and the slabs, rebate limits and cess rate
\* unchanged, and a second Calculate Tax on unchanged inputs shows the same
\* breakdown as the first.
C10_CalculateHasNoSideEffects ==
    [][(window = "main" /\ window' = "result") =>
          /\ UNCHANGED <<registry, selection, form, config>>
          /\ result.shown => result' = result]_vars

C10_Witness ==
    /\ window = "result"
    /\ result.shown
    /\ DOMAIN employees # {}
    /\ selection # <<>>
    /\ form.other_income_var # Txt(0)
    /\ form.regime_var = "old"


\* text is a decimal numeral with exactly two decimals, within half a hundredth of x
TwoDecimalsOf(text, x) ==
    /\ Len(text) >= 4
    /\ text[Len(text) - 2] = "."
    /\ \A i \in (1..Len(text)) \ {Len(text) - 2} : text[i] \in DigitSet
    /\ float(text).ok
    /\ LET diff == RSub(float(text).val, x)
       IN RLe([n |-> Abs(diff.n), d |-> diff.d], Norm(1, 200))

\* C13: a selection of an employee's row sets the monthly-basic field to the
\* stored gross annual salary divided by 12, written with two decimals, and
\* sets HRA, other allowances, other income, 80C and 80D to "0", the standard
\* deduction to "50000" and the regime to "new", whatever the form held before.
C13_SelectPrefillsAndResets ==
    [][(selection' # selection /\ selection' # <<>>) =>
          /\ selection'[1] \in DOMAIN employees
          /\ TwoDecimalsOf(form'.basic_var, RDiv(employees[selection'[1]].gross_salary, 12))
          /\ form'.hra_var = <<"0">>
          /\ form'.other_allow_var = <<"0">>
          /\ form'.other_income_var = <<"0">>
          /\ form'.sec80c_var = <<"0">>
          /\ form'.sec80d_var = <<"0">>
          /\ form'.std_ded_var = <<"5", "0", "0", "0", "0">>
          /\ form'.regime_var = "new"]_vars

\* The loaded employee (gross 100000 a year) is selected: 8333.33 a month.
C13_Witness ==
    /\ selection = <<1>>
    /\ employees[1].gross_salary = R(100000)
    /\ form.basic_var = <<"8", "3", "3", "3", ".", "3", "3">>
    /\ form.other_income_var = <<"0">>
    /\ form.regime_var = "new"


\* The form is what _on_item_select left for the selected row: nothing was edited.
JustSelected ==
    /\ selection # <<>>
    /\ selection[1] \in DOMAIN employees
    /\ form = on_item_select(employees, selection[1], form)

\* C14: Update Selected, invoked on a row that was selected and not edited,
\* leaves that employee's stored name and gross annual salary unchanged.
C14_SelectThenUpdateRoundTrip ==
    [][(JustSelected /\ DOMAIN employees' = DOMAIN employees) =>
          employees'[selection[1]] = employees[selection[1]]]_vars


(***************************************************************************)
(* Properties of the ids, under SpecIds.                                   *)
(***************************************************************************)
\* C15: an Add never assigns an id held earlier by an employee since deleted,
\* and never the id of an employee in the registry: every id that enters the
\* registry is outside retired, and no step replaces a registered record.
C15_IdsNeverReused ==
    [][/\ \A id \in DOMAIN employees' \ DOMAIN employees : id \notin retired
       /\ \A id \in DOMAIN employees' \cap DOMAIN employees :
             employees'[id] = employees[id]]_vars

====
